---- MODULE Spec2Model ----
(***************************************************************************)
(* A model of ts-todo: the task core (addTask, listTasks, markDone), the   *)
(* readline console that drives it (processCommand, main) and the browser  *)
(* page (loadTasks, saveTasks, getNextId, addTask, toggleTask, deleteTask, *)
(* clearCompleted, init).                                                  *)
(*                                                                         *)
(* A JavaScript string is a sequence of one-character strings, so that     *)
(* trim, split, join, toLowerCase, parseInt and the template literals are  *)
(* computed as the code computes them.                                     *)
(***************************************************************************)
EXTENDS Integers, Sequences, FiniteSets, TLC

VARIABLES
  variant,     \* what runs: the "console", the "web" page, one direct "call" of a function,
               \* or "both" front ends side by side (Lockstep)
  tasks,       \* console: let tasks: Task[]
  line,        \* console: the input line handed to processCommand last
  output,      \* console: what the last line printed
  proc,        \* console: "running" or "exit0"
  added,       \* console: the texts reported as added so far, in that order (history)
  doneIds,     \* console: the ids reported as marked done so far (history)
  uiTasks,     \* web: let tasks: Task[]
  storage,     \* web: localStorage slot "tasks"
  inputValue,  \* web: taskInput.value
  event,       \* web: the event handled last
  phase,       \* web: "boot" before init(), then "ready" ("failed", "garbled": see WebInit)
  issued,      \* web: the ids given to new tasks so far in this run (history)
  coreArg,     \* call: the array the function is applied to, as it is before and after the call
  coreCall,    \* call: the function called and its other arguments
  coreRes      \* call: the array (or, for listTasks, the string) it gives

vars == << variant, tasks, line, output, proc, added, doneIds, uiTasks, storage,
           inputValue, event, phase, issued, coreArg, coreCall, coreRes >>

consoleVars == << tasks, line, output, proc, added, doneIds >>
webVars == << uiTasks, storage, inputValue, event, phase, issued >>
coreVars == << coreArg, coreCall, coreRes >>

(***************************************************************************)
(* Bounds.                                                                 *)
(***************************************************************************)
\* An add is taken only while the id it assigns is at most MaxId.
MaxId == 2
\* new Date() returns one of the instants 0 .. MaxClock (milliseconds).
MaxClock == 1
\* The arrays passed to the core functions directly have at most MaxLen tasks.
MaxLen == 2

Instants == 0 .. MaxClock

(***************************************************************************)
(* Strings.                                                                *)
(***************************************************************************)
Str0 == << >>

\* The white space String.prototype.trim and parseInt strip (of the
\* characters the inputs below use).
WhiteSpace == { " ", "\t" }

Upper == << "A","B","C","D","E","F","G","H","I","J","K","L","M",
            "N","O","P","Q","R","S","T","U","V","W","X","Y","Z" >>
Lower == << "a","b","c","d","e","f","g","h","i","j","k","l","m",
            "n","o","p","q","r","s","t","u","v","w","x","y","z" >>

LowerChar(c) ==
  IF \E i \in 1..26 : Upper[i] = c
  THEN Lower[CHOOSE i \in 1..26 : Upper[i] = c]
  ELSE c

\* String.prototype.toLowerCase
ToLowerCase(s) == [ i \in 1..Len(s) |-> LowerChar(s[i]) ]

RECURSIVE TrimStart(_)
TrimStart(s) ==
  IF s # << >> /\ Head(s) \in WhiteSpace THEN TrimStart(Tail(s)) ELSE s

RECURSIVE TrimEnd(_)
TrimEnd(s) ==
  IF s # << >> /\ s[Len(s)] \in WhiteSpace
  THEN TrimEnd(SubSeq(s, 1, Len(s) - 1))
  ELSE s

\* String.prototype.trim
Trim(s) == TrimEnd(TrimStart(s))

RECURSIVE SplitFrom(_, _, _, _)
SplitFrom(s, i, cur, acc) ==
  IF i > Len(s) THEN Append(acc, cur)
  ELSE IF s[i] = " " THEN SplitFrom(s, i + 1, << >>, Append(acc, cur))
  ELSE SplitFrom(s, i + 1, Append(cur, s[i]), acc)

\* s.split(" "): never empty, "".split(" ") is [""]
Split(s) == SplitFrom(s, 1, << >>, << >>)

RECURSIVE Join(_, _)
\* parts.join(sep)
Join(parts, sep) ==
  IF parts = << >> THEN << >>
  ELSE IF Len(parts) = 1 THEN parts[1]
  ELSE parts[1] \o sep \o Join(Tail(parts), sep)

\* parts.slice(1)
Slice1(parts) == IF parts = << >> THEN << >> ELSE Tail(parts)

Digits == << "0","1","2","3","4","5","6","7","8","9" >>
IsDigit(c) == \E i \in 1..10 : Digits[i] = c
DigitVal(c) == (CHOOSE i \in 1..10 : Digits[i] = c) - 1

RECURSIVE DigitsPrefix(_)
\* the longest prefix of s made of decimal digits
DigitsPrefix(s) ==
  IF s # << >> /\ IsDigit(Head(s)) THEN << Head(s) >> \o DigitsPrefix(Tail(s))
  ELSE << >>

RECURSIVE DigitsValue(_, _)
DigitsValue(ds, acc) ==
  IF ds = << >> THEN acc
  ELSE DigitsValue(Tail(ds), 10 * acc + DigitVal(Head(ds)))

\* parseInt(s, 10): white space is skipped, then an optional sign, then the
\* longest run of digits is read and whatever follows is ignored; NaN when
\* there is no digit.
ParseInt(s) ==
  LET t == TrimStart(s)
      neg == t # << >> /\ Head(t) = "-"
      signed == t # << >> /\ Head(t) \in { "-", "+" }
      body == IF signed THEN Tail(t) ELSE t
      ds == DigitsPrefix(body)
  IN IF ds = << >> THEN [ nan |-> TRUE, val |-> 0 ]
     ELSE [ nan |-> FALSE,
            val |-> IF neg THEN 0 - DigitsValue(ds, 0) ELSE DigitsValue(ds, 0) ]

RECURSIVE NatToString(_)
NatToString(n) ==
  IF n < 10 THEN << Digits[n + 1] >>
  ELSE NatToString(n \div 10) \o << Digits[(n % 10) + 1] >>

\* `${n}` of a number
NumToString(n) == IF n < 0 THEN << "-" >> \o NatToString(0 - n) ELSE NatToString(n)

Pad3(n) ==
  << Digits[((n \div 100) % 10) + 1], Digits[((n \div 10) % 10) + 1],
     Digits[(n % 10) + 1] >>

\* new Date(ms).toISOString() for an instant within the first second of the epoch
ToISOString(ms) ==
  << "1","9","7","0","-","0","1","-","0","1","T","0","0",":","0","0",":","0","0","." >>
  \o Pad3(ms) \o << "Z" >>

(***************************************************************************)
(* The core: src/unnamed/part_001                                          *)
(***************************************************************************)
Task(id, text, completed, createdAt) ==
  [ id |-> id, text |-> text, completed |-> completed, createdAt |-> createdAt ]

Ids(ts) == { ts[i].id : i \in 1..Len(ts) }

\* Math.max(...ts.map(t => t.id)) of a non-empty array
MaxOfIds(ts) == CHOOSE m \in Ids(ts) : \A n \in Ids(ts) : n <= m

\* the id taken from the length of the array instead of the largest id
addTaskIdFromLength(ts, text, ms) ==
  ts \o << Task(Len(ts) + 1, text, FALSE, ToISOString(ms)) >>

\* addTask(tasks, text), with the instant new Date() returns
addTask(ts, text, ms) ==
  LET newTask == Task(IF Len(ts) > 0 THEN MaxOfIds(ts) + 1 ELSE 1,
                      text, FALSE, ToISOString(ms))
  IN ts \o << newTask >>

\* completed flipped instead of set
markDoneFlips(ts, id) ==
  [ i \in 1..Len(ts) |->
      IF ts[i].id = id THEN [ ts[i] EXCEPT !.completed = ~ ts[i].completed ]
      ELSE ts[i] ]

\* the id taken for a position in the array
markDoneByPosition(ts, id) ==
  [ i \in 1..Len(ts) |->
      IF i = id THEN [ ts[i] EXCEPT !.completed = TRUE ] ELSE ts[i] ]

\* markDone(tasks, id)
markDone(ts, id) ==
  [ i \in 1..Len(ts) |->
      IF ts[i].id = id THEN [ ts[i] EXCEPT !.completed = TRUE ] ELSE ts[i] ]

\* the status left blank whatever completed is
formatTaskUnmarked(task) ==
  << "[", " ", "]", " " >>
  \o NumToString(task.id) \o << " ", "-", " " >> \o task.text

\* `[${status}] ${task.id} - ${task.text}`
formatTask(task) ==
  << "[", IF task.completed THEN "x" ELSE " ", "]", " " >>
  \o NumToString(task.id) \o << " ", "-", " " >> \o task.text

NoTasksYet == << "N","o"," ","t","a","s","k","s"," ","y","e","t","." >>

\* listTasks(tasks)
listTasks(ts) ==
  IF Len(ts) = 0 THEN NoTasksYet
  ELSE Join([ i \in 1..Len(ts) |-> formatTask(ts[i]) ], << "\n" >>)

(***************************************************************************)
(* The same three functions with the objects they allocate. The heap is    *)
(* the sequence of the task objects that exist, an array is a sequence of  *)
(* references to them (positions in the heap). The array passed holds the  *)
(* references 1..Len(ts) to the tasks ts; what a call leaves is the heap,  *)
(* the array passed and the value returned (an array, or a string).        *)
(***************************************************************************)
Refs(ts) == [ i \in 1..Len(ts) |-> i ]
Deref(heap, arr) == [ i \in 1..Len(arr) |-> heap[arr[i]] ]
Memory(heap, arg, ret) == [ heap |-> heap, arg |-> arg, ret |-> ret ]

\* tasks.push(newTask); return tasks
addTaskPushes(ts, text, ms) ==
  LET newTask == Task(IF Len(ts) > 0 THEN MaxOfIds(ts) + 1 ELSE 1,
                      text, FALSE, ToISOString(ms))
  IN Memory(Append(ts, newTask), Append(Refs(ts), Len(ts) + 1),
            Append(Refs(ts), Len(ts) + 1))

\* addTask: newTask is a new object, [...tasks, newTask] a new array
addTaskInMemory(ts, text, ms) ==
  LET newTask == Task(IF Len(ts) > 0 THEN MaxOfIds(ts) + 1 ELSE 1,
                      text, FALSE, ToISOString(ms))
  IN Memory(Append(ts, newTask), Refs(ts), Append(Refs(ts), Len(ts) + 1))

\* task.completed = true; return task  in the callback of map
markDoneInPlace(ts, id) ==
  Memory([ i \in 1..Len(ts) |->
             IF ts[i].id = id THEN [ ts[i] EXCEPT !.completed = TRUE ] ELSE ts[i] ],
         Refs(ts), Refs(ts))

\* markDone: tasks.map gives a new array; its callback gives a new object
\* { ...task, completed: true } for a task with the id and the task itself,
\* the same object, for every other
markDoneInMemory(ts, id) ==
  LET hit == { i \in 1..Len(ts) : ts[i].id = id }
      copies == [ k \in 1..Cardinality(hit) |->
                   [ ts[CHOOSE i \in hit : Cardinality({ j \in hit : j < i }) = k - 1]
                       EXCEPT !.completed = TRUE ] ]
  IN Memory(ts \o copies, Refs(ts),
            [ i \in 1..Len(ts) |->
                IF i \in hit THEN Len(ts) + Cardinality({ j \in hit : j <= i })
                ELSE i ])

\* listTasks: tasks.length, tasks.map and join read the array and its tasks
listTasksInMemory(ts) == Memory(ts, Refs(ts), listTasks(ts))

(***************************************************************************)
(* The console: src/unnamed/part_000                                       *)
(***************************************************************************)
\* What console.log printed: the message and the text it interpolates.
Out(msg, arg) == [ msg |-> msg, arg |-> arg ]

NoOutput == Out("none", Str0)

cmdAdd == << "a","d","d" >>
cmdList == << "l","i","s","t" >>
cmdDone == << "d","o","n","e" >>
cmdHelp == << "h","e","l","p" >>
cmdQuit == << "q","u","i","t" >>

Res(ts, out, p) == [ tasks |-> ts, output |-> out, proc |-> p ]

\* The strings processCommand computes from its input alone: command,
\* taskText (case "add"), idStr and id = parseInt(idStr, 10) (case "done").
readCommand(input) ==
  LET parts == Split(Trim(input))
      rest == Join(Slice1(parts), << " " >>)
  IN [ command |-> ToLowerCase(parts[1]),
       taskText |-> rest,
       idStr |-> Trim(rest),
       id |-> ParseInt(Trim(rest)) ]

\* the run given up, with exit code 1, on an id that is no number
caseDoneExitsOnInvalid(ts, idStr, id) ==
  IF idStr = Str0 THEN Res(ts, Out("ErrorProvideId", Str0), "running")
  ELSE IF id.nan THEN Res(ts, Out("ErrorNotValidId", idStr), "exit1")
  ELSE IF ~ (\E i \in 1..Len(ts) : ts[i].id = id.val)
       THEN Res(ts, Out("ErrorNotFound", NumToString(id.val)), "running")
  ELSE Res(markDone(ts, id.val), Out("MarkedDone", NumToString(id.val)), "running")

\* case "done"
caseDone(ts, idStr, id) ==
  IF idStr = Str0 THEN Res(ts, Out("ErrorProvideId", Str0), "running")
  ELSE IF id.nan THEN Res(ts, Out("ErrorNotValidId", idStr), "running")
  ELSE IF ~ (\E i \in 1..Len(ts) : ts[i].id = id.val)
       THEN Res(ts, Out("ErrorNotFound", NumToString(id.val)), "running")
  ELSE Res(markDone(ts, id.val), Out("MarkedDone", NumToString(id.val)), "running")

\* switch (command) on the global tasks ts: the new tasks, what was printed,
\* and whether process.exit(0) was called. In case "quit", rl.close() emits
\* "close" before it returns, so the handler of "close" prints its own
\* "\nGoodbye!" after the "Goodbye!" of the case and calls process.exit(0).
switchCommand(ts, c, ms) ==
  CASE c.command = cmdAdd ->
         IF Len(c.taskText) = 0
         THEN Res(ts, Out("ErrorTaskTextEmpty", Str0), "running")
         ELSE Res(addTask(ts, c.taskText, ms), Out("TaskAdded", Str0), "running")
    [] c.command = cmdList ->
         Res(ts, Out("List", << "\n" >> \o listTasks(ts) \o << "\n" >>), "running")
    [] c.command = cmdDone -> caseDone(ts, c.idStr, c.id)
    [] c.command = cmdHelp -> Res(ts, Out("Help", Str0), "running")
    [] c.command = cmdQuit -> Res(ts, Out("GoodbyeTwice", << "\n" >>), "exit0")
    [] c.command = Str0 -> Res(ts, NoOutput, "running")
    [] OTHER -> Res(ts, Out("UnknownCommand", c.command), "running")

\* The lines typed at the prompt.
AddLines ==
  { << "a","d","d" >>,
    << "a","d","d"," " >>,
    << "a","d","d"," ","\t" >>,
    << "a","d","d"," ","a" >>,
    << "A","d","d"," ","a" >>,
    << " ","a","d","d"," ","a"," " >>,
    << "a","d","d"," "," ","a"," ","b" >> }

DoneLines ==
  { << "d","o","n","e" >>,
    << "d","o","n","e"," " >>,
    << "d","o","n","e"," ","1" >>,
    << "D","O","N","E"," ","2" >>,
    << "d","o","n","e"," "," ","2" >>,
    << "d","o","n","e"," ","3" >>,
    << "d","o","n","e"," ","9","9" >>,
    << "d","o","n","e"," ","-","1" >>,
    << "d","o","n","e"," ","a","b","c" >>,
    << "d","o","n","e"," ","1","a","b","c" >>,
    << "d","o","n","e"," ","1",".","5" >>,
    << "d","o","n","e"," ","1"," ","2" >> }

OtherLines ==
  { << "l","i","s","t" >>,
    << "l","i","s","t"," ","a" >>,
    << "h","e","l","p" >>,
    << "q","u","i","t" >>,
    << >>,
    << " " >>,
    << "d","e","l"," ","1" >>,
    << "a","d","d","\t","a" >> }

Lines == AddLines \cup DoneLines \cup OtherLines

\* readCommand of every line that can be typed, computed once
Typed == [ input \in Lines |-> readCommand(input) ]

\* processCommand(input), for input in Lines
processCommand(ts, input, ms) == switchCommand(ts, Typed[input], ms)

\* rl.on("line"): processCommand(input), then rl.prompt()
ConsoleLine ==
  /\ variant = "console"
  /\ proc = "running"
  /\ \E input \in Lines :
       \E r \in { processCommand(tasks, input, ms) : ms \in Instants } :
          /\ \A i \in 1..Len(r.tasks) : r.tasks[i].id <= MaxId
          /\ tasks' = r.tasks
          /\ output' = r.output
          /\ proc' = r.proc
          /\ line' = input
          /\ added' = IF r.output.msg = "TaskAdded"
                      THEN Append(added, Typed[input].taskText) ELSE added
          /\ doneIds' = IF r.output.msg = "MarkedDone"
                        THEN doneIds \cup { Typed[input].id.val } ELSE doneIds
  /\ UNCHANGED << variant, webVars, coreVars >>

\* rl.on("close"): end of input or Ctrl+C
ConsoleClose ==
  /\ variant = "console"
  /\ proc = "running"
  /\ output' = Out("Goodbye", << "\n" >>)
  /\ proc' = "exit0"
  /\ UNCHANGED << variant, tasks, line, added, doneIds, webVars, coreVars >>

(***************************************************************************)
(* The page: src/web/app.ts                                                *)
(***************************************************************************)
\* What localStorage.getItem("tasks") returns: null, or the string stored.
NoItem == [ present |-> FALSE, value |-> Str0 ]
Item(str) == [ present |-> TRUE, value |-> str ]

\* The properties of a task, in the order the object literals list them.
keyId == << "i","d" >>
keyText == << "t","e","x","t" >>
keyCompleted == << "c","o","m","p","l","e","t","e","d" >>
keyCreatedAt == << "c","r","e","a","t","e","d","A","t" >>

RECURSIVE Quote(_)
\* the body of a JSON string literal: ", \ and the control characters escaped
Quote(s) ==
  IF s = << >> THEN << >>
  ELSE (CASE Head(s) = "\"" -> << "\\", "\"" >>
          [] Head(s) = "\\" -> << "\\", "\\" >>
          [] Head(s) = "\t" -> << "\\", "t" >>
          [] Head(s) = "\n" -> << "\\", "n" >>
          [] OTHER -> << Head(s) >>) \o Quote(Tail(s))

\* the characters between two quotes, none of them escaped
JSONStringUnescaped(s) == << "\"" >> \o s \o << "\"" >>

\* JSON.stringify of a string
JSONString(s) == << "\"" >> \o Quote(s) \o << "\"" >>

JSONBoolean(b) ==
  IF b THEN << "t","r","u","e" >> ELSE << "f","a","l","s","e" >>

\* JSON.stringify of one task: the properties in the order they were created
JSONTask(task) ==
  << "{" >> \o JSONString(keyId) \o << ":" >> \o NumToString(task.id)
  \o << "," >> \o JSONString(keyText) \o << ":" >> \o JSONString(task.text)
  \o << "," >> \o JSONString(keyCompleted) \o << ":" >>
  \o JSONBoolean(task.completed)
  \o << "," >> \o JSONString(keyCreatedAt) \o << ":" >>
  \o JSONString(task.createdAt) \o << "}" >>

\* JSON.stringify(tasks)
JSONStringify(ts) ==
  << "[" >> \o Join([ i \in 1..Len(ts) |-> JSONTask(ts[i]) ], << "," >>) \o << "]" >>

\* The values JSON.parse gives.
JNull == [ type |-> "null" ]
JBool(b) == [ type |-> "boolean", bool |-> b ]
\* a number: its integer part and the digits of its fraction, if any
JNum(n, frac) == [ type |-> "number", num |-> n, frac |-> frac ]
JStr(str) == [ type |-> "string", str |-> str ]
JArr(items) == [ type |-> "array", items |-> items ]
JObj(keys, vals) == [ type |-> "object", keys |-> keys, vals |-> vals ]

Parsed(v, next) == [ ok |-> TRUE, v |-> v, next |-> next ]
SyntaxError == [ ok |-> FALSE, v |-> JNull, next |-> 0 ]

JSONWhite == { " ", "\t", "\n", "\r" }

RECURSIVE SkipWhite(_, _)
SkipWhite(s, i) ==
  IF i <= Len(s) /\ s[i] \in JSONWhite THEN SkipWhite(s, i + 1) ELSE i

RECURSIVE StringBody(_, _, _)
\* the rest of a string literal whose opening quote was read; of the escapes,
\* \b, \f and \uXXXX are left out (no input here has them)
StringBody(s, j, acc) ==
  IF j > Len(s) THEN SyntaxError
  ELSE IF s[j] = "\"" THEN Parsed(JStr(acc), j + 1)
  ELSE IF s[j] = "\\"
       THEN IF j + 1 > Len(s) THEN SyntaxError
            ELSE CASE s[j + 1] = "\"" -> StringBody(s, j + 2, Append(acc, "\""))
                   [] s[j + 1] = "\\" -> StringBody(s, j + 2, Append(acc, "\\"))
                   [] s[j + 1] = "/" -> StringBody(s, j + 2, Append(acc, "/"))
                   [] s[j + 1] = "t" -> StringBody(s, j + 2, Append(acc, "\t"))
                   [] s[j + 1] = "n" -> StringBody(s, j + 2, Append(acc, "\n"))
                   [] s[j + 1] = "r" -> StringBody(s, j + 2, Append(acc, "\r"))
                   [] OTHER -> SyntaxError
  ELSE IF s[j] \in { "\t", "\n", "\r" } THEN SyntaxError
  ELSE StringBody(s, j + 1, Append(acc, s[j]))

\* the fraction of a number whose integer part n ends before position k
NumberFraction(s, n, k) ==
  IF k <= Len(s) /\ s[k] = "."
  THEN IF DigitsPrefix(SubSeq(s, k + 1, Len(s))) = << >> THEN SyntaxError
       ELSE Parsed(JNum(n, DigitsPrefix(SubSeq(s, k + 1, Len(s)))),
                   k + 1 + Len(DigitsPrefix(SubSeq(s, k + 1, Len(s)))))
  ELSE Parsed(JNum(n, << >>), k)

\* the digits ds of a number that starts at k, after its sign (exponents are
\* left out: no input here has one)
NumberDigits(s, neg, k, ds) ==
  IF ds = << >> \/ (Len(ds) > 1 /\ ds[1] = "0") THEN SyntaxError
  ELSE NumberFraction(s, IF neg THEN 0 - DigitsValue(ds, 0) ELSE DigitsValue(ds, 0),
                      k + Len(ds))

ParseNumber(s, i) ==
  IF s[i] = "-" THEN NumberDigits(s, TRUE, i + 1, DigitsPrefix(SubSeq(s, i + 1, Len(s))))
  ELSE NumberDigits(s, FALSE, i, DigitsPrefix(SubSeq(s, i, Len(s))))

Literal(s, i, word, v) ==
  IF SubSeq(s, i, i + Len(word) - 1) = word THEN Parsed(v, i + Len(word))
  ELSE SyntaxError

RECURSIVE ValueAt(_, _)
RECURSIVE Elements(_, _, _)
RECURSIVE AfterElement(_, _, _)
RECURSIVE Members(_, _, _, _)
RECURSIVE MemberValue(_, _, _, _)
RECURSIVE AfterMember(_, _, _, _)

\* the element r was read: "," and more elements, or "]"
AfterElement(s, r, acc) ==
  IF ~ r.ok \/ SkipWhite(s, r.next) > Len(s) THEN SyntaxError
  ELSE IF s[SkipWhite(s, r.next)] = ","
       THEN Elements(s, SkipWhite(s, r.next) + 1, Append(acc, r.v))
  ELSE IF s[SkipWhite(s, r.next)] = "]"
       THEN Parsed(JArr(Append(acc, r.v)), SkipWhite(s, r.next) + 1)
  ELSE SyntaxError

\* the elements of an array, one expected at i
Elements(s, i, acc) == AfterElement(s, ValueAt(s, SkipWhite(s, i)), acc)

\* the member's value r was read: "," and more members, or "}"
AfterMember(s, r, keys, vals) ==
  IF ~ r.ok \/ SkipWhite(s, r.next) > Len(s) THEN SyntaxError
  ELSE IF s[SkipWhite(s, r.next)] = ","
       THEN Members(s, SkipWhite(s, SkipWhite(s, r.next) + 1), keys, Append(vals, r.v))
  ELSE IF s[SkipWhite(s, r.next)] = "}"
       THEN Parsed(JObj(keys, Append(vals, r.v)), SkipWhite(s, r.next) + 1)
  ELSE SyntaxError

\* the member's key k was read: ":" and its value
MemberValue(s, k, keys, vals) ==
  IF ~ k.ok \/ SkipWhite(s, k.next) > Len(s) THEN SyntaxError
  ELSE IF s[SkipWhite(s, k.next)] # ":" THEN SyntaxError
  ELSE AfterMember(s, ValueAt(s, SkipWhite(s, SkipWhite(s, k.next) + 1)),
                   Append(keys, k.v.str), vals)

\* the members of an object, one expected at i (white space skipped)
Members(s, i, keys, vals) ==
  IF i > Len(s) \/ s[i] # "\"" THEN SyntaxError
  ELSE MemberValue(s, StringBody(s, i + 1, << >>), keys, vals)

\* the JSON value that starts at i (white space skipped)
ValueAt(s, i) ==
  IF i > Len(s) THEN SyntaxError
  ELSE CASE s[i] = "[" ->
              IF SkipWhite(s, i + 1) <= Len(s) /\ s[SkipWhite(s, i + 1)] = "]"
              THEN Parsed(JArr(<< >>), SkipWhite(s, i + 1) + 1)
              ELSE Elements(s, i + 1, << >>)
         [] s[i] = "{" ->
              IF SkipWhite(s, i + 1) <= Len(s) /\ s[SkipWhite(s, i + 1)] = "}"
              THEN Parsed(JObj(<< >>, << >>), SkipWhite(s, i + 1) + 1)
              ELSE Members(s, SkipWhite(s, i + 1), << >>, << >>)
         [] s[i] = "\"" -> StringBody(s, i + 1, << >>)
         [] s[i] = "t" -> Literal(s, i, << "t","r","u","e" >>, JBool(TRUE))
         [] s[i] = "f" -> Literal(s, i, << "f","a","l","s","e" >>, JBool(FALSE))
         [] s[i] = "n" -> Literal(s, i, << "n","u","l","l" >>, JNull)
         [] s[i] = "-" \/ IsDigit(s[i]) -> ParseNumber(s, i)
         [] OTHER -> SyntaxError

\* nothing but white space may follow the value
WholeText(s, r) ==
  IF r.ok /\ SkipWhite(s, r.next) > Len(s) THEN r ELSE SyntaxError

\* JSON.parse(s): ok = FALSE stands for the SyntaxError thrown
JSONParse(s) == WholeText(s, ValueAt(s, SkipWhite(s, 1)))

\* obj[key] of a parsed object: the last member with that key
HasKey(obj, key) == \E i \in 1..Len(obj.keys) : obj.keys[i] = key
Prop(obj, key) ==
  obj.vals[CHOOSE i \in 1..Len(obj.keys) :
             obj.keys[i] = key /\ \A j \in (i + 1)..Len(obj.keys) : obj.keys[j] # key]

\* v is an object with the four properties of type Task and no other
IsTaskObject(v) ==
  /\ v.type = "object"
  /\ \A i \in 1..Len(v.keys) : v.keys[i] \in { keyId, keyText, keyCompleted, keyCreatedAt }
  /\ HasKey(v, keyId) /\ Prop(v, keyId).type = "number" /\ Prop(v, keyId).frac = << >>
  /\ HasKey(v, keyText) /\ Prop(v, keyText).type = "string"
  /\ HasKey(v, keyCompleted) /\ Prop(v, keyCompleted).type = "boolean"
  /\ HasKey(v, keyCreatedAt) /\ Prop(v, keyCreatedAt).type = "string"

TaskOf(v) ==
  Task(Prop(v, keyId).num, Prop(v, keyText).str, Prop(v, keyCompleted).bool,
       Prop(v, keyCreatedAt).str)

\* What loadTasks() leaves in tasks: shape "tasks" with the array of tasks,
\* "array" for an array whose elements are not all tasks, "blank" for the
\* empty string (a value that is no array but has length 0), "other" for
\* every other value that is no array (for these three the array kept here
\* is empty).
Loaded(shape, ts) == [ shape |-> shape, tasks |-> ts ]

\* tasks = JSON.parse(stored), for the value r that was parsed
assignParsed(r) ==
  IF ~ r.ok THEN Loaded("tasks", << >>)
  ELSE IF r.v = JStr(Str0) THEN Loaded("blank", << >>)
  ELSE IF r.v.type # "array" THEN Loaded("other", << >>)
  ELSE IF \A i \in 1..Len(r.v.items) : IsTaskObject(r.v.items[i])
       THEN Loaded("tasks", [ i \in 1..Len(r.v.items) |-> TaskOf(r.v.items[i]) ])
  ELSE Loaded("array", << >>)

\* loadTasks(), with stored = localStorage.getItem("tasks")
loadTasks(ts, stored) ==
  IF stored.present /\ stored.value # Str0 THEN assignParsed(JSONParse(stored.value))
  ELSE Loaded("tasks", ts)

\* saveTasks(): the slot after localStorage.setItem("tasks", JSON.stringify(tasks))
saveTasks(ts) == Item(JSONStringify(ts))

\* the next id taken from the length of the array
getNextIdFromLength(ts) == Len(ts) + 1

\* getNextId()
getNextId(ts) == IF Len(ts) = 0 THEN 1 ELSE MaxOfIds(ts) + 1

\* What a handler leaves behind: the array, whether saveTasks() ran, and
\* taskInput.value.
Left(ts, saved, value) == [ tasks |-> ts, saved |-> saved, value |-> value ]

\* the input taken as typed, without trim()
uiAddTaskUntrimmed(ts, value, ms) ==
  IF value = Str0 THEN Left(ts, FALSE, value)
  ELSE Left(Append(ts, Task(getNextId(ts), value, FALSE, ToISOString(ms))),
            TRUE, Str0)

\* tasks.unshift(newTask): the new task put first
uiAddTaskUnshift(ts, value, ms) ==
  LET text == Trim(value)
  IN IF text = Str0 THEN Left(ts, FALSE, value)
     ELSE Left(<< Task(getNextId(ts), text, FALSE, ToISOString(ms)) >> \o ts,
               TRUE, Str0)

\* addTask() of the page, with taskInput.value = value
uiAddTask(ts, value, ms) ==
  LET text == Trim(value)
  IN IF text = Str0 THEN Left(ts, FALSE, value)
     ELSE Left(Append(ts, Task(getNextId(ts), text, FALSE, ToISOString(ms))),
               TRUE, Str0)

\* the flag flipped and saveTasks() left out
toggleTaskUnsaved(ts, id, value) ==
  IF \E i \in 1..Len(ts) : ts[i].id = id
  THEN LET k == CHOOSE i \in 1..Len(ts) : ts[i].id = id
       IN Left([ ts EXCEPT ![k].completed = ~ ts[k].completed ], FALSE, value)
  ELSE Left(ts, FALSE, value)

\* the flag set instead of flipped
toggleTaskSetsDone(ts, id, value) ==
  IF \E i \in 1..Len(ts) : ts[i].id = id
  THEN LET k == CHOOSE i \in 1..Len(ts) :
                  ts[i].id = id /\ \A j \in 1..(i - 1) : ts[j].id # id
       IN Left([ ts EXCEPT ![k].completed = TRUE ], TRUE, value)
  ELSE Left(ts, FALSE, value)

\* toggleTask(id): tasks.find gives the first task with that id
toggleTask(ts, id, value) ==
  IF \E i \in 1..Len(ts) : ts[i].id = id
  THEN LET k == CHOOSE i \in 1..Len(ts) :
                  ts[i].id = id /\ \A j \in 1..(i - 1) : ts[j].id # id
       IN Left([ ts EXCEPT ![k].completed = ~ ts[k].completed ], TRUE, value)
  ELSE Left(ts, FALSE, value)

\* deleteTask(id)
deleteTask(ts, id, value) ==
  Left(SelectSeq(ts, LAMBDA t : t.id # id), TRUE, value)

\* only the first completed task removed
clearCompletedFirst(ts, value) ==
  IF \E i \in 1..Len(ts) : ts[i].completed
  THEN LET k == CHOOSE i \in 1..Len(ts) :
                  ts[i].completed /\ \A j \in 1..(i - 1) : ~ ts[j].completed
       IN Left(SubSeq(ts, 1, k - 1) \o SubSeq(ts, k + 1, Len(ts)), TRUE, value)
  ELSE Left(ts, TRUE, value)

\* clearCompleted()
clearCompleted(ts, value) ==
  Left(SelectSeq(ts, LAMBDA t : ~ t.completed), TRUE, value)

\* What the user has typed into the input when Add is clicked or Enter pressed.
InputValues ==
  { << >>,
    << " " >>,
    << "\t", " " >>,
    << "a" >>,
    << " ", "a", " " >>,
    << "\"", "b" >> }

\* What the slot "tasks" holds when the page is opened: nothing, the empty
\* string, text that is no JSON, JSON that is no array, an array that holds
\* no tasks, or the arrays an earlier run of the page saved.
SavedBefore ==
  { << Task(2, << "\"", "b" >>, TRUE, ToISOString(0)) >>,
    << Task(1, << "a" >>, FALSE, ToISOString(0)),
       Task(2, << "a" >>, TRUE, ToISOString(1)) >> }

InitialSlots ==
  { NoItem,
    Item(Str0),
    Item(<< "[", "{" >>),
    Item(<< "n","u","l","l" >>),
    Item(<< "{", "}" >>),
    Item(<< "[", "1", "]" >>),
    Item(<< "\"", "\"" >>) }
  \cup { Item(JSONStringify(ts)) : ts \in SavedBefore }

Event(op, id, value) == [ op |-> op, id |-> id, value |-> value ]

\* A handler has run: the array is replaced and, when saveTasks() ran, the
\* slot rewritten.
Handled(left) ==
  /\ uiTasks' = left.tasks
  /\ storage' = IF left.saved THEN saveTasks(left.tasks) ELSE storage
  /\ inputValue' = left.value

\* init(): loadTasks(), then renderTasks(), then the listeners are registered.
\* renderTasks() throws a TypeError on a value that is no array (tasks.length
\* of null, tasks.forEach of a number or an object), so init() ends there and
\* no listener is registered: phase "failed". An array whose elements are not
\* tasks is rendered and the page goes on with it, and so does the empty
\* string, whose length is 0 (renderTasks() returns before forEach): phase
\* "garbled", which this model follows no further.
WebInit ==
  /\ variant = "web"
  /\ phase = "boot"
  /\ \E l \in { loadTasks(uiTasks, storage) } :
       /\ uiTasks' = l.tasks
       /\ phase' = CASE l.shape = "tasks" -> "ready"
                     [] l.shape \in { "array", "blank" } -> "garbled"
                     [] OTHER -> "failed"
  /\ event' = Event("init", 0, Str0)
  /\ UNCHANGED << storage, inputValue, issued >>
  /\ UNCHANGED << variant, consoleVars, coreVars >>

\* click on addBtn, or Enter in taskInput
WebAdd ==
  /\ variant = "web"
  /\ phase = "ready"
  /\ \E value \in InputValues :
       \E left \in { uiAddTask(uiTasks, value, ms) : ms \in Instants } :
          /\ \A i \in 1..Len(left.tasks) : left.tasks[i].id <= MaxId
          /\ Handled(left)
          /\ event' = Event("add", 0, value)
          /\ issued' = IF left.saved
                       THEN issued \cup { left.tasks[Len(left.tasks)].id }
                       ELSE issued
  /\ UNCHANGED << phase, variant, consoleVars, coreVars >>

\* change on the checkbox of a rendered task
WebToggle ==
  /\ variant = "web"
  /\ phase = "ready"
  /\ \E id \in Ids(uiTasks) :
       /\ Handled(toggleTask(uiTasks, id, inputValue))
       /\ event' = Event("toggle", id, Str0)
  /\ UNCHANGED << phase, issued, variant, consoleVars, coreVars >>

\* click on the Delete button of a rendered task
WebDelete ==
  /\ variant = "web"
  /\ phase = "ready"
  /\ \E id \in Ids(uiTasks) :
       /\ Handled(deleteTask(uiTasks, id, inputValue))
       /\ event' = Event("delete", id, Str0)
  /\ UNCHANGED << phase, issued, variant, consoleVars, coreVars >>

\* click on clearCompletedBtn
WebClear ==
  /\ variant = "web"
  /\ phase = "ready"
  /\ Handled(clearCompleted(uiTasks, inputValue))
  /\ event' = Event("clear", 0, Str0)
  /\ UNCHANGED << phase, issued, variant, consoleVars, coreVars >>

(***************************************************************************)
(* Direct calls: one function of the core, or one handler of the page,     *)
(* applied to an array that was not built by the program itself.           *)
(***************************************************************************)
CallTexts ==
  { << "a" >>,
    << "a", " ", "b" >>,
    << " ", "a", " " >>,
    << " " >> }

CallIds == 0 .. (MaxLen + 2)

\* The tasks of these arrays were all created at the same instant.
ArgTasks ==
  { Task(id, text, completed, ToISOString(0)) :
      id \in 1..(MaxLen + 1), text \in { << "a" >>, << " ", "b" >> },
      completed \in BOOLEAN }

\* The arrays passed: at most MaxLen tasks, ids unique, in any order.
ArgArrays ==
  { a \in UNION { [ 1..n -> ArgTasks ] : n \in 0..MaxLen } :
      \A i, j \in 1..Len(a) : a[i].id = a[j].id => i = j }

\* The function called, with the text or id passed and the instant new Date()
\* returned during the call (0 when the function does not read the clock).
Call(fn, text, id, ms) == [ fn |-> fn, text |-> text, id |-> id, ms |-> ms ]

NoCall == Call("none", Str0, 0, 0)

\* addTask(coreArg, text) of the core
CallAddTask ==
  /\ variant = "call"
  /\ coreCall = NoCall
  /\ \E text \in CallTexts, ms \in Instants :
       \E m \in { addTaskInMemory(coreArg, text, ms) } :
         /\ coreCall' = Call("addTask", text, 0, ms)
         /\ coreRes' = addTask(coreArg, text, ms)
         /\ coreArg' = Deref(m.heap, m.arg)
  /\ UNCHANGED << variant, consoleVars, webVars >>

\* markDone(coreArg, id) of the core
CallMarkDone ==
  /\ variant = "call"
  /\ coreCall = NoCall
  /\ \E id \in CallIds :
       \E m \in { markDoneInMemory(coreArg, id) } :
         /\ coreCall' = Call("markDone", Str0, id, 0)
         /\ coreRes' = markDone(coreArg, id)
         /\ coreArg' = Deref(m.heap, m.arg)
  /\ UNCHANGED << variant, consoleVars, webVars >>

\* listTasks(coreArg) of the core
CallListTasks ==
  /\ variant = "call"
  /\ coreCall = NoCall
  /\ \E m \in { listTasksInMemory(coreArg) } :
       /\ coreCall' = Call("listTasks", Str0, 0, 0)
       /\ coreRes' = listTasks(coreArg)
       /\ coreArg' = Deref(m.heap, m.arg)
  /\ UNCHANGED << variant, consoleVars, webVars >>

\* addTask() of the page with tasks = coreArg and taskInput.value = text
CallUiAddTask ==
  /\ variant = "call"
  /\ coreCall = NoCall
  /\ \E text \in CallTexts \cup { Str0 }, ms \in Instants :
       /\ coreCall' = Call("uiAddTask", text, 0, ms)
       /\ coreRes' = uiAddTask(coreArg, text, ms).tasks
  /\ UNCHANGED << coreArg, variant, consoleVars, webVars >>

\* toggleTask(id) of the page with tasks = coreArg
CallToggleTask ==
  /\ variant = "call"
  /\ coreCall = NoCall
  /\ \E id \in CallIds :
       /\ coreCall' = Call("toggleTask", Str0, id, 0)
       /\ coreRes' = toggleTask(coreArg, id, Str0).tasks
  /\ UNCHANGED << coreArg, variant, consoleVars, webVars >>

\* deleteTask(id) of the page with tasks = coreArg
CallDeleteTask ==
  /\ variant = "call"
  /\ coreCall = NoCall
  /\ \E id \in CallIds :
       /\ coreCall' = Call("deleteTask", Str0, id, 0)
       /\ coreRes' = deleteTask(coreArg, id, Str0).tasks
  /\ UNCHANGED << coreArg, variant, consoleVars, webVars >>

\* clearCompleted() of the page with tasks = coreArg
CallClearCompleted ==
  /\ variant = "call"
  /\ coreCall = NoCall
  /\ coreCall' = Call("clearCompleted", Str0, 0, 0)
  /\ coreRes' = clearCompleted(coreArg, Str0).tasks
  /\ UNCHANGED << coreArg, variant, consoleVars, webVars >>

Init ==
  /\ variant \in { "console", "web", "call" }
  /\ tasks = << >>
  /\ line = << >>
  /\ output = NoOutput
  /\ proc = "running"
  /\ added = << >>
  /\ doneIds = { }
  /\ uiTasks = << >>
  /\ storage \in (IF variant = "web" THEN InitialSlots ELSE { NoItem })
  /\ inputValue = << >>
  /\ event = Event("none", 0, Str0)
  /\ phase = "boot"
  /\ issued = { }
  /\ coreArg \in (IF variant = "call" THEN ArgArrays ELSE { << >> })
  /\ coreCall = NoCall
  /\ coreRes = << >>

Next ==
  \/ ConsoleLine
  \/ ConsoleClose
  \/ WebInit
  \/ WebAdd
  \/ WebToggle
  \/ WebDelete
  \/ WebClear
  \/ CallAddTask
  \/ CallMarkDone
  \/ CallListTasks
  \/ CallUiAddTask
  \/ CallToggleTask
  \/ CallDeleteTask
  \/ CallClearCompleted

Spec == Init /\ [][Next]_vars

(***************************************************************************)
(* The two front ends side by side, from the same collection: each step    *)
(* hands the same request to the path of the console (addTask, markDone of *)
(* the core, on tasks) and to the handler of the page (on uiTasks).        *)
(***************************************************************************)
\* The texts added: not empty, no white space at either end.
BothTexts ==
  { << "a" >>,
    << "a", " ", "b" >> }

\* the same text added on both sides, the two clocks read at different instants
BothAdd ==
  /\ variant = "both"
  /\ Len(tasks) <= MaxLen
  /\ \E text \in BothTexts :
       /\ tasks' = addTask(tasks, text, 0)
       /\ Handled(uiAddTask(uiTasks, text, MaxClock))
       /\ event' = Event("add", 0, text)
  /\ UNCHANGED << variant, line, output, proc, added, doneIds, phase, issued, coreVars >>

\* a task that is not completed yet completed on both sides
BothComplete ==
  /\ variant = "both"
  /\ \E i \in 1..Len(tasks) :
       /\ ~ tasks[i].completed
       /\ tasks' = markDone(tasks, tasks[i].id)
       /\ Handled(toggleTask(uiTasks, tasks[i].id, inputValue))
       /\ event' = Event("toggle", tasks[i].id, Str0)
  /\ UNCHANGED << variant, line, output, proc, added, doneIds, phase, issued, coreVars >>

InitBoth ==
  /\ variant = "both"
  /\ tasks \in ArgArrays
  /\ uiTasks = tasks
  /\ line = << >>
  /\ output = NoOutput
  /\ proc = "running"
  /\ added = << >>
  /\ doneIds = { }
  /\ storage = saveTasks(uiTasks)
  /\ inputValue = << >>
  /\ event = Event("init", 0, Str0)
  /\ phase = "ready"
  /\ issued = { }
  /\ coreArg = << >>
  /\ coreCall = NoCall
  /\ coreRes = << >>

NextBoth ==
  \/ BothAdd
  \/ BothComplete

Lockstep == InitBoth /\ [][NextBoth]_vars

(***************************************************************************)
(* Properties.                                                             *)
(***************************************************************************)
AllWhite(s) == \A i \in 1..Len(s) : s[i] \in WhiteSpace

\* e is t without its leading and trailing white space
IsTrimOf(e, t) ==
  /\ e = << >> \/ (e[1] \notin WhiteSpace /\ e[Len(e)] \notin WhiteSpace)
  /\ \E i \in 1..(Len(t) + 1) :
       /\ i + Len(e) - 1 <= Len(t)
       /\ e = SubSeq(t, i, i + Len(e) - 1)
       /\ AllWhite(SubSeq(t, 1, i - 1))
       /\ AllWhite(SubSeq(t, i + Len(e), Len(t)))

\* r is c with one task appended: c is its prefix, and the last task has the
\* text given, completed = false, and an id above every id of c that is 1 or
\* the successor of an id of c.
AppendedTo(c, text, r) ==
  /\ Len(r) = Len(c) + 1
  /\ \A i \in 1..Len(c) : r[i] = c[i]
  /\ r[Len(r)].text = text
  /\ r[Len(r)].completed = FALSE
  /\ \A i \in 1..Len(c) : c[i].id < r[Len(r)].id
  /\ IF c = << >> THEN r[Len(r)].id = 1
     ELSE \E i \in 1..Len(c) : r[Len(r)].id = c[i].id + 1

\* C1 as stated: for every collection C and every non-empty text t, both
\* addTask of the core and the addTask handler of the page give C with one
\* task appended whose text is t, whose completed is false and whose id is
\* 1 + max(ids of C), or 1 for the empty C, every task of C kept as it was.
\* (Non-empty is read here in the claim's favour: a text of white space only
\* counts as empty.)
C1_AddAppendsTextAsGiven ==
  (coreCall.fn \in { "addTask", "uiAddTask" } /\ ~ AllWhite(coreCall.text))
    => AppendedTo(coreArg, coreCall.text, coreRes)

\* C1 as amended: the core's addTask appends the task with the text t itself;
\* the page's handler appends it with t stripped of leading and trailing
\* white space, and appends nothing when nothing but white space was typed.
C1_AddAppends ==
  /\ coreCall.fn = "addTask" =>
       /\ AppendedTo(coreArg, coreCall.text, coreRes)
       /\ coreRes[Len(coreRes)].createdAt = ToISOString(coreCall.ms)
  /\ coreCall.fn = "uiAddTask" =>
       IF AllWhite(coreCall.text) THEN coreRes = coreArg
       ELSE /\ Len(coreRes) = Len(coreArg) + 1
            /\ IsTrimOf(coreRes[Len(coreRes)].text, coreCall.text)
            /\ AppendedTo(coreArg, coreRes[Len(coreRes)].text, coreRes)

C1_Witness ==
  /\ coreCall.fn = "uiAddTask"
  /\ coreCall.text = << " ", "a", " " >>
  /\ Len(coreArg) = 2
  /\ coreArg[1].id > coreArg[2].id
  /\ Len(coreRes) = 3
  /\ coreRes[3].text = << "a" >>

\* The step is the page's add handler appending a task.
WebAdded ==
  /\ variant = "web"
  /\ event'.op = "add"
  /\ Len(uiTasks') = Len(uiTasks) + 1

\* C2: in one run of the page, the id given to a newly added task differs
\* from every id given to an earlier task, removed tasks included.
C2_IdsNeverReused ==
  [][ WebAdded => uiTasks'[Len(uiTasks')].id \notin issued ]_vars

IdsValid(ts) ==
  /\ \A i \in 1..Len(ts) : ts[i].id \in Int /\ ts[i].id >= 1
  /\ \A i, j \in 1..Len(ts) : ts[i].id = ts[j].id => i = j

\* C3: from the empty collection, in every reachable state of the console
\* and of the page every id is an integer >= 1 and no two tasks share an id.
C3_IdsPositiveUnique == IdsValid(tasks) /\ IdsValid(uiTasks)

C3_Witness ==
  /\ variant = "web"
  /\ event.op = "add"
  /\ Len(uiTasks) = 2
  /\ uiTasks[1].completed
  /\ Cardinality(issued) = 2

\* C4: in the console a task is created with completed = false, and a task
\* whose completed is true is still there, and still completed, after every
\* command.
C4_CompletedOnlyRises ==
  [][ variant = "console" =>
        /\ Len(tasks') >= Len(tasks)
        /\ \A i \in 1..Len(tasks) :
             /\ tasks'[i].id = tasks[i].id
             /\ tasks[i].completed => tasks'[i].completed
        /\ \A i \in (Len(tasks) + 1)..Len(tasks') : ~ tasks'[i].completed ]_vars

C4_Witness ==
  /\ variant = "console"
  /\ output.msg = "MarkedDone"
  /\ Typed[line].command = cmdDone
  /\ Len(tasks) = 2
  /\ tasks[1].completed
  /\ tasks[2].completed

\* C5: markDone(C, id) gives an array of the same length and order, in which
\* the task with that id has completed = true, every other task is as it
\* was, and id, text and createdAt of every task are as they were; with no
\* such task the result equals C.
C5_MarkDoneFrame ==
  coreCall.fn = "markDone" =>
    /\ Len(coreRes) = Len(coreArg)
    /\ \A i \in 1..Len(coreArg) :
         /\ coreRes[i].id = coreArg[i].id
         /\ coreRes[i].text = coreArg[i].text
         /\ coreRes[i].createdAt = coreArg[i].createdAt
         /\ coreRes[i].completed =
              (coreArg[i].completed \/ coreArg[i].id = coreCall.id)
    /\ (\A i \in 1..Len(coreArg) : coreArg[i].id # coreCall.id) => coreRes = coreArg

C5_Witness ==
  /\ coreCall.fn = "markDone"
  /\ Len(coreArg) = 2
  /\ coreArg[2].id = coreCall.id
  /\ coreArg[1].id > coreArg[2].id
  /\ ~ coreArg[1].completed /\ ~ coreArg[2].completed
  /\ coreRes[2].completed /\ ~ coreRes[1].completed

\* C6: markDone is idempotent: marking the same id done in the result of
\* markDone(C, id) gives that result again.
C6_MarkDoneIdempotent ==
  coreCall.fn = "markDone" => markDone(coreRes, coreCall.id) = coreRes

C6_Witness ==
  /\ coreCall.fn = "markDone"
  /\ \E i \in 1..Len(coreArg) :
       coreArg[i].id = coreCall.id /\ ~ coreArg[i].completed /\ coreRes[i].completed

\* The step is the console processing the line l and going on.
LineStep(l) ==
  /\ variant = "console"
  /\ proc = "running"
  /\ proc' = "running"
  /\ line' = l

\* s is a decimal integer: an optional sign, then digits and nothing else.
IsIntegerToken(s) ==
  LET body == IF s # << >> /\ s[1] \in { "-", "+" } THEN Tail(s) ELSE s
  IN body # << >> /\ \A i \in 1..Len(body) : IsDigit(body[i])

\* The done lines whose id token is there and is not an integer.
DoneNotIntegerLines ==
  { l \in Lines : /\ Typed[l].command = cmdDone
                  /\ Typed[l].idStr # Str0
                  /\ ~ IsIntegerToken(Typed[l].idStr) }

\* C7: a done command whose id token is not a valid integer ("abc", and
\* also "1abc", "1.5", "1 2") is rejected with the invalid-id error and
\* leaves the collection unchanged.
C7_NotIntegerRejected ==
  [][ \A l \in DoneNotIntegerLines :
        LineStep(l) => (output'.msg = "ErrorNotValidId" /\ tasks' = tasks) ]_vars

HasBlankText(ts) == \E i \in 1..Len(ts) : AllWhite(ts[i].text)

\* The add lines with nothing, or nothing but white space, after the keyword.
AddBlankLines ==
  { l \in Lines : /\ Typed[l].command = cmdAdd
                  /\ AllWhite(SubSeq(TrimStart(l), 4, Len(TrimStart(l)))) }

\* C8: from the empty collection, no stored task of the console or of the
\* page ever has an empty or white-space-only text, and an add whose text is
\* empty after trimming leaves the collection as it was.
C8_NoBlankText ==
  [][ /\ ~ HasBlankText(tasks') /\ ~ HasBlankText(uiTasks')
      /\ \A l \in AddBlankLines :
           LineStep(l) => (tasks' = tasks /\ output'.msg = "ErrorTaskTextEmpty")
      /\ (variant = "web" /\ event'.op = "add" /\ AllWhite(event'.value))
           => uiTasks' = uiTasks ]_vars

C8_Witness ==
  /\ variant = "web"
  /\ event.op = "add"
  /\ event.value = << "\t", " " >>
  /\ inputValue = << "\t", " " >>
  /\ Len(uiTasks) = 1
  /\ uiTasks[1].text = << "a" >>

\* The lines the console is to leave the collection alone on: list, help, a
\* blank line, an unknown command, an add with no text, a done with no id,
\* with a non-numeric id, or with the id of no task.
IsNumeric(s) == s # << >> /\ \A i \in 1..Len(s) : IsDigit(s[i])

QuietLine(l, ts) ==
  LET c == Typed[l]
  IN \/ c.command \in { cmdList, cmdHelp, Str0 }
     \/ c.command \notin { cmdAdd, cmdList, cmdDone, cmdHelp, cmdQuit, Str0 }
     \/ c.command = cmdAdd /\ c.taskText = Str0
     \/ c.command = cmdDone /\ c.idStr = Str0
     \/ c.command = cmdDone /\ c.idStr # Str0 /\ ~ IsNumeric(c.idStr)
     \/ c.command = cmdDone /\ IsNumeric(c.idStr)
          /\ \A i \in 1..Len(ts) : NumToString(ts[i].id) # c.idStr

\* C9: in the console, list, help, a blank line, an unknown command, an add
\* with no text, a done with no id, a done with a non-numeric id and a done
\* with an id no task carries leave the collection exactly as it was and
\* report nothing as added or marked done.
C9_OnlyAddAndDoneChange ==
  [][ \A l \in Lines :
        (LineStep(l) /\ QuietLine(l, tasks)) =>
          (tasks' = tasks /\ output'.msg \notin { "TaskAdded", "MarkedDone" }) ]_vars

\* The step is one of the page's four handlers.
WebHandled ==
  /\ variant = "web"
  /\ phase = "ready"
  /\ event'.op \in { "add", "toggle", "delete", "clear" }

\* C10 as stated: after every add, toggle, delete or clear-completed handler
\* of the page has run, the slot "tasks" holds the serialization of the
\* whole current collection.
C10_SlotHoldsCollectionAfterEveryHandler ==
  [][ WebHandled => storage' = Item(JSONStringify(uiTasks')) ]_vars

\* C10 as amended: a handler that changes the collection, and every delete
\* and clear-completed, leaves the slot holding the serialization of the
\* whole current collection; a handler that returns early (an add with
\* nothing but white space typed) changes neither the collection nor the
\* slot.
C10_MutationsPersisted ==
  [][ WebHandled =>
        IF uiTasks' # uiTasks \/ event'.op \in { "delete", "clear" }
        THEN storage' = Item(JSONStringify(uiTasks'))
        ELSE storage' = storage ]_vars

C10_Witness ==
  /\ variant = "web"
  /\ event.op = "toggle"
  /\ Len(uiTasks) = 2
  /\ uiTasks[2].completed
  /\ storage = Item(JSONStringify(uiTasks))

\* The stored text decodes to an array of task objects.
DecodesToTasks(text) ==
  LET r == JSONParse(text)
  IN /\ r.ok
     /\ r.v.type = "array"
     /\ \A i \in 1..Len(r.v.items) : IsTaskObject(r.v.items[i])

\* init() has just run on a slot whose value does not decode to an array of
\* task objects.
StartedOnCorruptSlot ==
  /\ variant = "web"
  /\ event.op = "init"
  /\ storage.present
  /\ ~ DecodesToTasks(storage.value)

\* C11: when the page starts on a stored value that does not decode to an
\* array of task objects, the collection is empty afterwards and startup has
\* gone on to the end: the list rendered, the handlers registered.
C11_CorruptSlotStartsEmpty ==
  StartedOnCorruptSlot => (uiTasks = << >> /\ phase = "ready")

\* C12: every collection the page can hold, the empty one included, comes
\* back from saveTasks() followed by loadTasks() with the same tasks, the
\* same four field values in each, in the same order.
C12_SaveLoadRoundTrip ==
  (variant = "web" /\ phase = "ready") =>
     loadTasks(<< >>, saveTasks(uiTasks)) = Loaded("tasks", uiTasks)

C12_Witness ==
  /\ variant = "web"
  /\ phase = "ready"
  /\ event.op = "add"
  /\ Len(uiTasks) = 2
  /\ uiTasks[1].completed
  /\ uiTasks[2].text = << "\"", "b" >>
  /\ storage = saveTasks(uiTasks)
  /\ loadTasks(<< >>, storage).tasks = uiTasks

\* The positions of the tasks of ts that are not completed, and the k-th of
\* them.
OpenAt(ts) == { i \in 1..Len(ts) : ~ ts[i].completed }
NthOpen(ts, k) ==
  CHOOSE i \in OpenAt(ts) : Cardinality({ j \in OpenAt(ts) : j < i }) = k - 1

\* C13: clearCompleted gives exactly the tasks that are not completed, in
\* the order they had and with every field as it was: no completed task
\* stays and no other task goes.
C13_ClearCompletedKeepsOpen ==
  coreCall.fn = "clearCompleted" =>
    /\ Len(coreRes) = Cardinality(OpenAt(coreArg))
    /\ \A k \in 1..Len(coreRes) : coreRes[k] = coreArg[NthOpen(coreArg, k)]

C13_Witness ==
  /\ coreCall.fn = "clearCompleted"
  /\ Len(coreArg) = 2
  /\ coreArg[1].completed
  /\ ~ coreArg[2].completed
  /\ coreArg[1].id < coreArg[2].id
  /\ coreRes = << coreArg[2] >>

\* ts without its k-th task
Without(ts, k) == SubSeq(ts, 1, k - 1) \o SubSeq(ts, k + 1, Len(ts))

\* C14: deleteTask(id) of the page removes the task with that id and leaves
\* the others and their order as they were; toggleTask(id) flips the
\* completed flag of the task with that id and changes nothing else; both
\* leave the collection as it was when no task has that id.
C14_DeleteToggleFrame ==
  /\ coreCall.fn = "deleteTask" =>
       /\ \A k \in 1..Len(coreArg) :
            coreArg[k].id = coreCall.id => coreRes = Without(coreArg, k)
       /\ (\A k \in 1..Len(coreArg) : coreArg[k].id # coreCall.id)
            => coreRes = coreArg
  /\ coreCall.fn = "toggleTask" =>
       /\ Len(coreRes) = Len(coreArg)
       /\ \A i \in 1..Len(coreArg) :
            /\ coreRes[i].id = coreArg[i].id
            /\ coreRes[i].text = coreArg[i].text
            /\ coreRes[i].createdAt = coreArg[i].createdAt
            /\ coreRes[i].completed =
                 (IF coreArg[i].id = coreCall.id THEN ~ coreArg[i].completed
                  ELSE coreArg[i].completed)

C14_Witness ==
  /\ coreCall.fn = "toggleTask"
  /\ Len(coreArg) = 2
  /\ coreArg[2].id = coreCall.id
  /\ coreArg[1].completed /\ coreArg[2].completed
  /\ coreRes[1] = coreArg[1]
  /\ ~ coreRes[2].completed

RECURSIVE LinesOf(_, _)
\* the lines of the text s, the line being read held in acc
LinesOf(s, acc) ==
  IF s = << >> THEN << acc >>
  ELSE IF Head(s) = "\n" THEN << acc >> \o LinesOf(Tail(s), << >>)
  ELSE LinesOf(Tail(s), Append(acc, Head(s)))

\* The entry of a task: [x] or [ ], the id in decimal, " - ", the text.
EntryOf(id, text, completed) ==
  << "[", (IF completed THEN "x" ELSE " "), "]", " " >>
  \o NumToString(id) \o << " ", "-", " " >> \o text

\* what console.log printed for list, without the "\n" before and after
Listed == SubSeq(output.arg, 2, Len(output.arg) - 1)

\* C15: listTasks gives the sentinel for the empty collection and otherwise
\* one line per task, in the order of the collection, of the form
\* [<marker>] <id> - <text> with marker x exactly for a completed task; the
\* sentinel is no task line. So what list prints in the console is the
\* sentinel while nothing was added, and otherwise one line for every text
\* added so far, in the order added, marked x exactly for the ids that were
\* reported as marked done.
C15_ListShowsEveryTask ==
  /\ Head(NoTasksYet) # "["
  /\ coreCall.fn = "listTasks" =>
       IF coreArg = << >> THEN coreRes = NoTasksYet
       ELSE /\ coreRes # NoTasksYet
            /\ LinesOf(coreRes, << >>) =
                 [ i \in 1..Len(coreArg) |->
                     EntryOf(coreArg[i].id, coreArg[i].text, coreArg[i].completed) ]
  /\ (variant = "console" /\ output.msg = "List") =>
       /\ output.arg[1] = "\n" /\ output.arg[Len(output.arg)] = "\n"
       /\ IF added = << >> THEN Listed = NoTasksYet
          ELSE LinesOf(Listed, << >>) =
                 [ k \in 1..Len(added) |-> EntryOf(k, added[k], k \in doneIds) ]

C15_Witness ==
  /\ variant = "console"
  /\ output.msg = "List"
  /\ Len(added) = 2
  /\ doneIds = { 1 }
  /\ Len(LinesOf(Listed, << >>)) = 2
  /\ LinesOf(Listed, << >>)[1][2] = "x"
  /\ LinesOf(Listed, << >>)[2][2] = " "

\* The step is the handler of "close": end of input, or the interrupt.
CloseStep ==
  /\ proc = "running"
  /\ output' = Out("Goodbye", << "\n" >>)
  /\ UNCHANGED << tasks, line >>

\* The step is the handler of "line" on a line whose command is quit.
QuitStep ==
  /\ proc = "running"
  /\ Typed[line'].command = cmdQuit
  /\ output'.msg = "GoodbyeTwice"

\* C16: the console run ends only by the quit command or by the end of
\* input (or interrupt), and then with exit code 0; every other line, those
\* answered with an error included, leaves the run going: processCommand
\* returns, rl.prompt() shows the next prompt and the next line is awaited.
C16_EndsOnlyByQuitOrClose ==
  [][ variant = "console" =>
        /\ proc = "running"
        /\ proc' \in { "running", "exit0" }
        /\ proc' = "exit0" <=> (CloseStep \/ QuitStep)
        /\ output'.msg \in { "ErrorTaskTextEmpty", "ErrorProvideId", "ErrorNotValidId",
                              "ErrorNotFound", "UnknownCommand" }
             => proc' = "running" ]_vars

C16_Witness ==
  /\ variant = "console"
  /\ proc = "exit0"
  /\ Typed[line].command = cmdQuit
  /\ output.msg = "GoodbyeTwice"
  /\ Len(tasks) = 2

\* The step is a call of one of the three functions of the core.
CoreCalled ==
  /\ variant = "call"
  /\ coreCall = NoCall
  /\ coreCall'.fn \in { "addTask", "markDone", "listTasks" }

\* C17: addTask, markDone and listTasks do not modify the array passed:
\* after the call it has the length, the order and the field values it had
\* before, and what the call changed shows in the value returned only.
C17_ArgumentNotModified ==
  [][ CoreCalled =>
        /\ coreArg' = coreArg
        /\ coreCall'.fn = "addTask" =>
             \E m \in { addTaskInMemory(coreArg, coreCall'.text, coreCall'.ms) } :
                Deref(m.heap, m.ret) = coreRes' /\ coreRes' # coreArg'
        /\ coreCall'.fn = "markDone" =>
             \E m \in { markDoneInMemory(coreArg, coreCall'.id) } :
                Deref(m.heap, m.ret) = coreRes' ]_vars

C17_Witness ==
  /\ coreCall.fn = "markDone"
  /\ Len(coreArg) = 2
  /\ coreArg[1].id = coreCall.id
  /\ ~ coreArg[1].completed
  /\ coreRes[1].completed
  /\ coreRes[2] = coreArg[2]

\* C18: from the same collection, the same adds of texts that are not empty
\* and already trimmed, with tasks not yet completed being completed in
\* between, leave the console path (addTask, markDone of the core) and the
\* handlers of the page (addTask, toggleTask) with collections equal in ids,
\* texts, completed flags and order.
C18_FrontEndsAgree ==
  variant = "both" =>
    /\ Len(uiTasks) = Len(tasks)
    /\ \A i \in 1..Len(tasks) :
         /\ uiTasks[i].id = tasks[i].id
         /\ uiTasks[i].text = tasks[i].text
         /\ uiTasks[i].completed = tasks[i].completed

C18_Witness ==
  /\ variant = "both"
  /\ event.op = "toggle"
  /\ Len(tasks) = 3
  /\ tasks[1].id > tasks[2].id
  /\ tasks[3].id = tasks[1].id + 1
  /\ tasks[3].completed /\ uiTasks[3].completed
  /\ uiTasks[3].createdAt # tasks[3].createdAt

\* The ids of ts grow strictly along its order.
IdsIncreasing(ts) == \A i, j \in 1..Len(ts) : i < j => ts[i].id < ts[j].id

\* C19: in the console and on the page, whatever adds, dones, toggles,
\* deletes and clear-completeds were made since the collection was empty,
\* the ids grow strictly along the order of the collection, so the last task
\* has the largest id.
C19_IdsIncreaseAlongOrder ==
  /\ variant = "console" => IdsIncreasing(tasks)
  /\ variant = "web" =>
       /\ IdsIncreasing(uiTasks)
       /\ uiTasks # << >> => uiTasks[Len(uiTasks)].id = MaxOfIds(uiTasks)

C19_Witness ==
  /\ variant = "web"
  /\ event.op = "add"
  /\ issued = { 1, 2 }
  /\ Len(uiTasks) = 2
  /\ uiTasks[1].id = 1 /\ uiTasks[1].completed
  /\ uiTasks[2].id = 2

====
